---- MODULE Spec2Model ----
(***************************************************************************)
(* CursorHome (Linux): the shake detector, the cursor finder service, the  *)
(* GTK highlight overlay with its glib timer loops, and the Synergy log    *)
(* monitor, as one state machine.                                          *)
(*                                                                         *)
(* Time is in milliseconds.  Sensitivities are in tenths (5 is 0.5), the   *)
(* highlight duration preference is in tenths of a second (f64 seconds in  *)
(* the source).                                                            *)
(***************************************************************************)
EXTENDS Integers, Sequences, FiniteSets, TLC

VARIABLES
    preferences,    \* Arc<Preferences>: never mutated after load
    now,            \* the monotonic clock read by Instant::now()
    samples,        \* ShakeDetector.samples (VecDeque<PositionSample>)
    sensitivity,    \* ShakeDetector.sensitivity, in tenths
    is_running,     \* ShakeDetector.is_running
    last_check,     \* the last detect_shake call: the window it examined, how many
                    \* samples were evicted before it, and its result
    idle_queue,     \* number of glib idle callbacks queued by on_shake, not yet run
    overlay,        \* CursorFinderService.overlay is Some
    is_visible,     \* HighlightOverlay.is_visible
    window_visible, \* the gtk window is presented (not set_visible(false))
    opacity,        \* the gtk window's opacity (0 or 1)
    animation,      \* HighlightOverlay.animation (AnimationState)
    timers,         \* the live glib timeout sources created by start_animation_loop
    redraw,         \* a redraw of the drawing area is queued (queue_draw), not yet drawn
    cursor_position, \* HighlightOverlay.cursor_position, <<>> while no overlay exists
    last_known_position, \* CursorFinderService.last_known_position (Option)
    displays,       \* DisplayManager.displays
    pointer,        \* what a pointer query of the X server answers (None: it fails)
    x11,            \* X11Overlay: is_visible, whether its window is mapped, and the
                    \* call of show_highlight that is running or has returned
    log_exists,     \* a candidate Synergy log file exists
    log_file,       \* the content of the log file, a sequence of tokens
    monitor,        \* SynergyMonitor: last_position, log_path, cursor_is_remote
    workers,        \* the threads running event_loop, each with its channel
    transitions,    \* the transitions the last process_new_entries call returned
    history,        \* what the workers have parsed so far: the offset up to which
                    \* lines were parsed and the offset of the last line that gave
                    \* an event
    call            \* the last call of a pure function that was observed: the
                    \* function, its arguments and its result

vars == <<preferences, now, samples, sensitivity, is_running, last_check,
          idle_queue, overlay, is_visible, window_visible, opacity, animation, timers,
          redraw, cursor_position, last_known_position, displays, pointer, x11, log_exists, log_file, monitor, workers, transitions, history, call>>

appVarsButX11 == <<preferences, now, samples, sensitivity, is_running, last_check,
                   idle_queue, overlay, is_visible, window_visible, opacity, animation,
                   timers, redraw, cursor_position, last_known_position, displays,
                   pointer, log_exists, log_file, monitor, workers, transitions, history>>

monitorVars == <<log_exists, log_file, monitor, workers, transitions, history>>

shakeVars == <<samples, sensitivity, is_running, last_check>>
overlayVars == <<overlay, is_visible, window_visible, opacity, animation, timers, redraw,
                 cursor_position>>
serviceVars == <<last_known_position, displays, pointer>>

(***************************************************************************)
(* Bounds of the model                                                     *)
(***************************************************************************)
MaxTime == 600
MaxSamples == 6
MaxIdle == 1
MaxTimers == 2
MaxLogLen == 8
MaxQueue == 2
MaxWorkers == 1
MaxClockSteps == 24
MaxLineLen == 4
MaxDetectLen == 6
PScale == 10 * 100

TimeSteps == {200}
XValues == {0, 100}
YValues == {0}
SensitivityInputs == {-5, 0, 5, 10, 15}
HighlightDurations == {2, 4}

(***************************************************************************)
(* models/cursor_style.rs                                                  *)
(***************************************************************************)
Easings == {"Linear", "EaseIn", "EaseOut", "EaseInOut"}

\* mutant: EaseInOut keeps its first branch over the whole range
apply_first_branch(easing, t) ==
    CASE easing = "Linear" -> t
      [] easing = "EaseIn" -> (t * t) \div PScale
      [] easing = "EaseOut" -> PScale - ((PScale - t) * (PScale - t)) \div PScale
      [] easing = "EaseInOut" -> (2 * t * t) \div PScale

\* Easing::apply, on progress values scaled by PScale
apply(easing, t) ==
    CASE easing = "Linear" -> t
      [] easing = "EaseIn" -> (t * t) \div PScale
      [] easing = "EaseOut" -> PScale - ((PScale - t) * (PScale - t)) \div PScale
      [] easing = "EaseInOut" ->
            IF 2 * t < PScale
            THEN (2 * t * t) \div PScale
            ELSE PScale - ((2 * PScale - 2 * t) * (2 * PScale - 2 * t)) \div (2 * PScale)

\* AnimationStyle::default(): pulse, 0.8 s, ease-in-out, 3 repeats, auto-reverse
AnimationStyle_default ==
    [animation_type |-> "Pulse", duration |-> 800, easing |-> "EaseInOut",
     repeat_count |-> 3, auto_reverse |-> TRUE]

AnimationStyles ==
    { AnimationStyle_default,
      [animation_type |-> "Fade", duration |-> 400, easing |-> "EaseIn",
       repeat_count |-> 1, auto_reverse |-> TRUE],
      [animation_type |-> "None", duration |-> 0, easing |-> "Linear",
       repeat_count |-> 0, auto_reverse |-> FALSE] }

\* AnimationState::default()
AnimationState_default ==
    [style |-> AnimationStyle_default, start_time |-> -1, progress |-> 0,
     is_reversing |-> FALSE]

(***************************************************************************)
(* services/shake_detector.rs                                              *)
(***************************************************************************)
window_duration == 400
min_direction_changes == 4
min_threshold == 300
max_threshold == 900

\* no detect_shake call has examined the current run of samples yet
NoCheck == [window |-> <<>>, evicted |-> 0, result |-> FALSE]

Abs(v) == IF v < 0 THEN 0 - v ELSE v

\* the f64 value NaN, as a sensitivity (no other sensitivity is below -100)
NaN == -999

\* f64::clamp(0.0, 1.0), in tenths: it returns NaN if the value is NaN
clamp(v) == IF v = NaN THEN NaN ELSE IF v < 0 THEN 0 ELSE IF v > 10 THEN 10 ELSE v

\* mutant: "if" for "while", at most one stale sample is popped
evict_once(s, t) ==
    IF s # <<>> /\ t - Head(s).time > window_duration
    THEN Tail(s)
    ELSE s

\* the eviction loop of record_position: pop the front while it is older
\* than the window
RECURSIVE evict(_, _)
evict(s, t) ==
    IF s # <<>> /\ t - Head(s).time > window_duration
    THEN evict(Tail(s), t)
    ELSE s

RECURSIVE SumAbsDx(_, _)
SumAbsDx(s, i) ==
    IF i > Len(s) THEN 0 ELSE Abs(s[i].x - s[i - 1].x) + SumAbsDx(s, i + 1)

\* mutant: the sign tests are not strict, a zero delta counts as a change
direction_changes_nonstrict(s) ==
    Cardinality({ i \in 3..Len(s) :
        LET dx == s[i].x - s[i - 1].x
            prev_dx == s[i - 1].x - s[i - 2].x
        IN  (dx >= 0 /\ prev_dx <= 0) \/ (dx <= 0 /\ prev_dx >= 0) })

\* mutant: the comparison with the previous delta starts one sample late
direction_changes_late(s) ==
    Cardinality({ i \in 4..Len(s) :
        LET dx == s[i].x - s[i - 1].x
            prev_dx == s[i - 1].x - s[i - 2].x
        IN  (dx > 0 /\ prev_dx < 0) \/ (dx < 0 /\ prev_dx > 0) })

\* the number of i >= 2 (0-based) whose dx and prev_dx have strictly
\* opposite signs
direction_changes(s) ==
    Cardinality({ i \in 3..Len(s) :
        LET dx == s[i].x - s[i - 1].x
            prev_dx == s[i - 1].x - s[i - 2].x
        IN  (dx > 0 /\ prev_dx < 0) \/ (dx < 0 /\ prev_dx > 0) })

\* threshold = max - sensitivity * (max - min), times 10 (sensitivity in
\* tenths); arithmetic on NaN gives NaN
threshold10(sens) ==
    IF sens = NaN THEN NaN
    ELSE 10 * max_threshold - sens * (max_threshold - min_threshold)

\* mutant: a velocity equal to the threshold detects
detect_shake_at_threshold(s, sens) ==
    IF Len(s) < 4 THEN FALSE
    ELSE LET total_distance == SumAbsDx(s, 2)
             time_span == s[Len(s)].time - s[1].time
         IN  IF time_span <= 0 THEN FALSE
             ELSE /\ direction_changes(s) >= min_direction_changes
                  /\ threshold10(sens) # NaN
                  /\ total_distance * 1000 * 10 >= threshold10(sens) * time_span

\* ShakeDetector::detect_shake; velocity = total_distance / time_span (s),
\* compared without division: distance * 1000 * 10 > threshold10 * span_ms;
\* a comparison with NaN is false
detect_shake(s, sens) ==
    IF Len(s) < 4 THEN FALSE
    ELSE LET total_distance == SumAbsDx(s, 2)
             time_span == s[Len(s)].time - s[1].time
         IN  IF time_span <= 0 THEN FALSE
             ELSE /\ direction_changes(s) >= min_direction_changes
                  /\ threshold10(sens) # NaN
                  /\ total_distance * 1000 * 10 > threshold10(sens) * time_span

(***************************************************************************)
(* ui/highlight_overlay.rs                                                 *)
(***************************************************************************)
\* (duration * 1000.0) as u64: the cast saturates negative values to 0
duration_ms(duration) == IF duration <= 0 THEN 0 ELSE duration * 100

\* mutant: the raw progress is taken from the whole elapsed time
update_animation_nomod(anim, t) ==
    IF anim.start_time < 0 THEN anim
    ELSE LET elapsed == t - anim.start_time
             cycle_duration == anim.style.duration
         IN  IF cycle_duration <= 0 THEN anim
             ELSE LET raw_progress == (elapsed * PScale) \div cycle_duration
                      cycle == elapsed \div cycle_duration
                      reversing == IF anim.style.auto_reverse
                                   THEN cycle % 2 = 1
                                   ELSE anim.is_reversing
                      directed == IF anim.style.auto_reverse /\ reversing
                                  THEN PScale - raw_progress
                                  ELSE raw_progress
                      eased == apply(anim.style.easing, directed)
                  IN  [anim EXCEPT
                         !.is_reversing = reversing,
                         !.progress = IF anim.style.repeat_count > 0
                                         /\ cycle >= anim.style.repeat_count
                                      THEN PScale
                                      ELSE eased]

\* mutant: the progress is not mirrored in the reversing cycles
update_animation_noreverse(anim, t) ==
    IF anim.start_time < 0 THEN anim
    ELSE LET elapsed == t - anim.start_time
             cycle_duration == anim.style.duration
         IN  IF cycle_duration <= 0 THEN anim
             ELSE LET raw_progress == ((elapsed % cycle_duration) * PScale) \div cycle_duration
                      cycle == elapsed \div cycle_duration
                      reversing == IF anim.style.auto_reverse
                                   THEN cycle % 2 = 1
                                   ELSE anim.is_reversing
                      directed == raw_progress
                      eased == apply(anim.style.easing, directed)
                  IN  [anim EXCEPT
                         !.is_reversing = reversing,
                         !.progress = IF anim.style.repeat_count > 0
                                         /\ cycle >= anim.style.repeat_count
                                      THEN PScale
                                      ELSE eased]

\* the animation update of one timer tick (lines 229-258)
update_animation(anim, t) ==
    IF anim.start_time < 0 THEN anim
    ELSE LET elapsed == t - anim.start_time
             cycle_duration == anim.style.duration
         IN  IF cycle_duration <= 0 THEN anim
             ELSE LET raw_progress == ((elapsed % cycle_duration) * PScale) \div cycle_duration
                      cycle == elapsed \div cycle_duration
                      reversing == IF anim.style.auto_reverse
                                   THEN cycle % 2 = 1
                                   ELSE anim.is_reversing
                      directed == IF anim.style.auto_reverse /\ reversing
                                  THEN PScale - raw_progress
                                  ELSE raw_progress
                      eased == apply(anim.style.easing, directed)
                  IN  [anim EXCEPT
                         !.is_reversing = reversing,
                         !.progress = IF anim.style.repeat_count > 0
                                         /\ cycle >= anim.style.repeat_count
                                      THEN PScale
                                      ELSE eased]

\* HighlightOverlay::start_animation_loop: a new glib timeout source.  The
\* model keeps at most MaxTimers sources and only sessions that end by MaxTime.
start_animation_loop(duration) ==
    /\ Len(timers) < MaxTimers
    /\ now + duration_ms(duration) <= MaxTime
    /\ timers' = Append(timers, [start |-> now, duration_ms |-> duration_ms(duration)])

\* HighlightOverlay::show
show(x, y, style, animation_style, duration) ==
    /\ cursor_position' = <<x, y>>
    /\ animation' = [style |-> animation_style, start_time |-> now,
                     progress |-> 0, is_reversing |-> FALSE]
    /\ is_visible' = TRUE
    /\ opacity' = 1
    /\ window_visible' = TRUE
    /\ start_animation_loop(duration)
    /\ UNCHANGED redraw

\* HighlightOverlay::hide
hide ==
    /\ is_visible' = FALSE
    /\ opacity' = 0
    /\ window_visible' = FALSE

\* mutant: the loop ends only once the animation has also finished its repeats
duration_elapsed_after_repeats(t) ==
    /\ now - t.start >= t.duration_ms
    /\ \/ animation.style.repeat_count = 0
       \/ animation.style.duration <= 0
       \/ (now - t.start) \div animation.style.duration >= animation.style.repeat_count

\* start.elapsed().as_millis() as u64 >= duration_ms (line 216)
duration_elapsed(t) == now - t.start >= t.duration_ms

RemoveAt(s, i) == SubSeq(s, 1, i - 1) \o SubSeq(s, i + 1, Len(s))

\* get_x11_cursor_position: Some((x, y)) is <<<<x, y>>>>, None is <<>>
get_x11_cursor_position == pointer

\* mutant: the closure does not test is_visible before it goes on
timer_tick_unchecked(i) ==
    /\ i \in 1..Len(timers)
    /\ IF duration_elapsed(timers[i])
       THEN /\ window_visible' = FALSE
            /\ opacity' = 0
            /\ is_visible' = FALSE
            /\ timers' = RemoveAt(timers, i)
            /\ UNCHANGED <<animation, redraw, cursor_position>>
       ELSE /\ cursor_position' = IF get_x11_cursor_position # <<>>
                                   THEN get_x11_cursor_position[1]
                                   ELSE cursor_position
            /\ animation' = update_animation(animation, now)
            /\ redraw' = TRUE
            /\ UNCHANGED <<is_visible, window_visible, opacity, timers>>
    /\ UNCHANGED <<preferences, call, x11, serviceVars, monitorVars, now, shakeVars, idle_queue, overlay>>

\* one run of the closure given to glib::timeout_add_local (lines 210-262)
timer_tick(i) ==
    /\ i \in 1..Len(timers)
    /\ IF ~is_visible
       THEN /\ timers' = RemoveAt(timers, i)
            /\ UNCHANGED <<is_visible, window_visible, opacity, animation, redraw,
                           cursor_position>>
       ELSE IF duration_elapsed(timers[i])
       THEN /\ window_visible' = FALSE
            /\ opacity' = 0
            /\ is_visible' = FALSE
            /\ timers' = RemoveAt(timers, i)
            /\ UNCHANGED <<animation, redraw, cursor_position>>
       ELSE /\ cursor_position' = IF get_x11_cursor_position # <<>>
                                   THEN get_x11_cursor_position[1]
                                   ELSE cursor_position
            /\ animation' = update_animation(animation, now)
            /\ redraw' = TRUE
            /\ UNCHANGED <<is_visible, window_visible, opacity, timers>>
    /\ UNCHANGED <<preferences, call, x11, serviceVars, monitorVars, now, shakeVars, idle_queue, overlay>>

(***************************************************************************)
(* ui/x11_overlay.rs                                                       *)
(***************************************************************************)
\* X11Overlay::new: the window exists and is not mapped; no call of
\* show_highlight is running (pc) or has returned (returned)
X11Overlay_new ==
    [is_visible |-> FALSE, mapped |-> FALSE, pc |-> "idle", returned |-> "none",
     start |-> 0, duration |-> 0, style |-> AnimationStyle_default, progress |-> 0]

\* the requests of one step that can fail, "ok" if none does
MapOutcomes == {"ok", "map_window"}
FrameOutcomes == {"ok", "query_pointer", "draw_highlight", "poll_for_event"}
HideOutcomes == {"ok", "unmap_window"}

\* X11Overlay::hide, on the overlay o: the overlay after the call, which
\* returns Err if io is not "ok" and the window has to be unmapped
x11_hide(o, io) ==
    IF o.is_visible /\ io = "ok"
    THEN [o EXCEPT !.mapped = FALSE, !.is_visible = FALSE]
    ELSE o

\* X11Overlay::calculate_animation_progress
calculate_animation_progress(elapsed, style) ==
    IF style.duration <= 0 THEN PScale
    ELSE LET raw_progress == ((elapsed % style.duration) * PScale) \div style.duration
             progress == IF style.auto_reverse
                         THEN LET cycle == elapsed \div style.duration
                              IN  IF cycle % 2 = 1
                                  THEN PScale - raw_progress
                                  ELSE raw_progress
                         ELSE raw_progress
         IN  apply(style.easing, progress)

\* X11Overlay::show_highlight up to the start of its loop (lines 117-127)
x11_show_highlight(animation_style, duration_secs, io) ==
    /\ x11.pc = "idle"
    /\ now + duration_ms(duration_secs) <= MaxTime
    /\ x11' = IF io = "ok"
              THEN [x11 EXCEPT !.mapped = TRUE, !.is_visible = TRUE, !.pc = "loop",
                               !.returned = "none", !.start = now,
                               !.duration = duration_ms(duration_secs),
                               !.style = animation_style, !.progress = 0]
              ELSE [x11 EXCEPT !.returned = "Err"]
    /\ UNCHANGED appVarsButX11
    /\ UNCHANGED call

\* one turn of the loop of show_highlight (lines 129-153), or its end when
\* the duration has elapsed (lines 156-159)
x11_frame(io, hide_io) ==
    /\ x11.pc = "loop"
    /\ x11' = IF now - x11.start < x11.duration
              THEN IF io = "ok"
                   THEN [x11 EXCEPT !.progress =
                            calculate_animation_progress(now - x11.start, x11.style)]
                   ELSE [x11 EXCEPT !.pc = "idle", !.returned = "Err"]
              ELSE [x11_hide(x11, hide_io) EXCEPT
                       !.pc = "idle",
                       !.returned = IF x11.is_visible /\ hide_io # "ok"
                                    THEN "Err" ELSE "Ok"]
    /\ UNCHANGED appVarsButX11
    /\ UNCHANGED call

\* a call of X11Overlay::hide while show_highlight is not running
x11_hide_action(io) ==
    /\ x11.pc = "idle"
    /\ x11' = [x11_hide(x11, io) EXCEPT !.returned = "none"]
    /\ UNCHANGED appVarsButX11
    /\ UNCHANGED call

(***************************************************************************)
(* services/display_manager.rs                                             *)
(***************************************************************************)
\* the monitors gdk reports: the first one is marked primary
Monitor_0 == [x |-> 0, y |-> 0, width |-> 2560, height |-> 1440, is_primary |-> TRUE]
Monitor_1 == [x |-> 2560, y |-> 0, width |-> 1920, height |-> 1080, is_primary |-> FALSE]
MonitorLists == { <<>>, <<Monitor_0>>, <<Monitor_0, Monitor_1>> }

(***************************************************************************)
(* services/cursor_finder.rs                                               *)
(***************************************************************************)
\* CursorFinderService::show_highlight_at; HighlightOverlay::new() has no
\* failing path, so the overlay is created on first use
show_highlight_at(x, y) ==
    /\ overlay' = TRUE
    /\ show(x, y, preferences.cursor_style, preferences.animation_style,
            preferences.highlight_duration)

\* Display::center
center(display) ==
    <<display.x + display.width \div 2, display.y + display.height \div 2>>

\* DisplayManager::primary_display: Some(d) is <<d>>, None is <<>>
primary_display ==
    LET primary == { i \in 1..Len(displays) : displays[i].is_primary }
    IN  IF primary # {}
        THEN <<displays[CHOOSE i \in primary : \A k \in primary : i <= k]>>
        ELSE IF displays # <<>> THEN <<displays[1]>>
        ELSE <<>>

\* mutant: the centre of the primary display comes before the last position
fallback_position_center_first ==
    IF primary_display # <<>> THEN center(primary_display[1])
    ELSE IF last_known_position # <<>> THEN last_known_position[1]
    ELSE <<960, 540>>

\* the position find_cursor highlights: the last known position, or else
\* the centre of the primary display, or else (960, 540)
fallback_position ==
    IF last_known_position # <<>> THEN last_known_position[1]
    ELSE IF primary_display # <<>> THEN center(primary_display[1])
    ELSE <<960, 540>>

\* mutant: find_cursor without the enabled check
find_cursor_unguarded == show_highlight_at(fallback_position[1], fallback_position[2])

\* CursorFinderService::find_cursor
find_cursor ==
    IF ~preferences.enabled
    THEN UNCHANGED overlayVars
    ELSE show_highlight_at(fallback_position[1], fallback_position[2])

\* CursorFinderService::hide_highlight
hide_highlight ==
    /\ IF overlay
       THEN hide
       ELSE UNCHANGED <<is_visible, window_visible, opacity>>
    /\ UNCHANGED <<preferences, call, x11, serviceVars, monitorVars, now, shakeVars, idle_queue, overlay, animation,
                   timers, redraw, cursor_position>>

\* CursorFinderService::update_cursor_position, with
\* HighlightOverlay::update_position
update_cursor_position(x, y) ==
    /\ last_known_position' = << <<x, y>> >>
    /\ IF overlay
       THEN /\ cursor_position' = <<x, y>>
            /\ redraw' = (is_visible \/ redraw)
       ELSE UNCHANGED <<cursor_position, redraw>>
    /\ UNCHANGED <<preferences, call, x11, displays, pointer, monitorVars, now, shakeVars,
                   idle_queue, overlay, is_visible, window_visible, opacity, animation,
                   timers>>

\* a call of CursorFinderService::show_highlight_at
show_highlight_at_action(x, y) ==
    /\ show_highlight_at(x, y)
    /\ UNCHANGED <<preferences, call, x11, serviceVars, monitorVars, now, shakeVars, idle_queue>>

\* CursorFinderService::center_on_primary: Err if there is no display
center_on_primary ==
    /\ IF primary_display = <<>>
       THEN UNCHANGED overlayVars
       ELSE show_highlight_at(center(primary_display[1])[1], center(primary_display[1])[2])
    /\ UNCHANGED <<preferences, call, x11, serviceVars, monitorVars, now, shakeVars, idle_queue>>

\* CursorFinderService::refresh_displays: gdk reports the monitors ds
refresh_displays(ds) ==
    /\ displays' = ds
    /\ UNCHANGED <<preferences, call, x11, last_known_position, pointer, monitorVars, now,
                   shakeVars, idle_queue, overlayVars>>

\* the X server's pointer moves, or its pointer queries start to fail
move_pointer(q) ==
    /\ pointer' = q
    /\ UNCHANGED <<preferences, call, x11, last_known_position, displays, monitorVars, now,
                   shakeVars, idle_queue, overlayVars>>

\* the draw function given to set_draw_func (lines 122-139), run by GTK for
\* a queued redraw: it paints the highlight only while is_visible
draw ==
    /\ redraw
    /\ redraw' = FALSE
    /\ UNCHANGED <<preferences, call, x11, serviceVars, monitorVars, now, shakeVars, idle_queue, overlay,
                   is_visible, window_visible, opacity, animation, timers,
                   cursor_position>>

(***************************************************************************)
(* app.rs                                                                  *)
(***************************************************************************)
\* the on_shake closure of setup_shake_detection: queue an idle callback
on_shake ==
    idle_queue' = idle_queue + 1

\* mutant: the idle closure tests the shake flag the wrong way round
idle_callback_inverted ==
    /\ idle_queue > 0
    /\ idle_queue' = idle_queue - 1
    /\ IF preferences.enabled /\ ~preferences.shake_enabled
       THEN find_cursor
       ELSE UNCHANGED overlayVars
    /\ UNCHANGED <<preferences, call, x11, serviceVars, monitorVars, now, shakeVars>>

\* the closure given to glib::idle_add_local_once, run by the main loop
idle_callback ==
    /\ idle_queue > 0
    /\ idle_queue' = idle_queue - 1
    /\ IF preferences.enabled /\ preferences.shake_enabled
       THEN find_cursor
       ELSE UNCHANGED overlayVars
    /\ UNCHANGED <<preferences, call, x11, serviceVars, monitorVars, now, shakeVars>>

\* the "find-cursor" action of setup_shortcuts (hotkey)
find_cursor_action ==
    /\ find_cursor
    /\ UNCHANGED <<preferences, call, x11, serviceVars, monitorVars, now, shakeVars, idle_queue>>

(***************************************************************************)
(* ShakeDetector operations                                                *)
(***************************************************************************)
\* mutant: the window is kept after a detection
record_position_noclear(x, y) ==
    /\ Len(samples) < MaxSamples
    /\ idle_queue < MaxIdle
    /\ IF ~is_running
       THEN UNCHANGED <<samples, last_check, idle_queue>>
       ELSE LET pushed == Append(samples, [x |-> x, y |-> y, time |-> now])
                window == evict(pushed, now)
                detected == detect_shake(window, sensitivity)
            IN  /\ last_check' = [window |-> window,
                                   evicted |-> Len(pushed) - Len(window),
                                   result |-> detected]
                /\ IF detected
                   THEN /\ samples' = window
                        /\ on_shake
                   ELSE /\ samples' = window
                        /\ UNCHANGED idle_queue
    /\ UNCHANGED <<preferences, call, x11, serviceVars, monitorVars, now, sensitivity, is_running, overlayVars>>

\* ShakeDetector::record_position
record_position(x, y) ==
    /\ Len(samples) < MaxSamples
    /\ idle_queue < MaxIdle
    /\ IF ~is_running
       THEN UNCHANGED <<samples, last_check, idle_queue>>
       ELSE LET pushed == Append(samples, [x |-> x, y |-> y, time |-> now])
                window == evict(pushed, now)
                detected == detect_shake(window, sensitivity)
            IN  /\ last_check' = [window |-> window,
                                   evicted |-> Len(pushed) - Len(window),
                                   result |-> detected]
                /\ IF detected
                   THEN /\ samples' = <<>>
                        /\ on_shake
                   ELSE /\ samples' = window
                        /\ UNCHANGED idle_queue
    /\ UNCHANGED <<preferences, call, x11, serviceVars, monitorVars, now, sensitivity, is_running, overlayVars>>

\* ShakeDetector::set_sensitivity
set_sensitivity(s) ==
    /\ sensitivity' = clamp(s)
    /\ UNCHANGED <<preferences, call, x11, serviceVars, monitorVars, now, samples, is_running, last_check, idle_queue, overlayVars>>

\* mutant: start always clears the window
shake_start_always_clears ==
    /\ is_running' = TRUE
    /\ samples' = <<>>
    /\ last_check' = IF is_running THEN last_check ELSE NoCheck
    /\ UNCHANGED <<preferences, call, x11, serviceVars, monitorVars, now, sensitivity, idle_queue, overlayVars>>

\* ShakeDetector::start
shake_start ==
    /\ IF is_running
       THEN UNCHANGED <<is_running, samples>>
       ELSE /\ is_running' = TRUE
            /\ samples' = <<>>
    /\ last_check' = IF is_running THEN last_check ELSE NoCheck
    /\ UNCHANGED <<preferences, call, x11, serviceVars, monitorVars, now, sensitivity, idle_queue, overlayVars>>

\* ShakeDetector::stop
shake_stop ==
    /\ is_running' = FALSE
    /\ samples' = <<>>
    /\ last_check' = NoCheck
    /\ UNCHANGED <<preferences, call, x11, serviceVars, monitorVars, now, sensitivity, idle_queue, overlayVars>>

(***************************************************************************)
(* services/synergy_monitor.rs                                             *)
(*                                                                         *)
(* The log is a sequence of tokens: words (separated by single spaces in   *)
(* the file) and the newline "\n".  Offsets count tokens.                  *)
(***************************************************************************)
NL == "\n"

\* the lines Synergy writes in this model, each with its newline
LogLines ==
    { <<"switching", "from", "Office-PC", NL>>,
      <<"switching", "to", "Office-PC", NL>>,
      <<"leaving", NL>>,
      <<"heartbeat", NL>> }

\* a line written in two appends: the pieces of "switching from Office-PC"
LogPieces ==
    { <<"switching">>, <<"from", "Office-PC", NL>> }

\* the lines among them that are no transitions
OtherLines == { line \in LogLines : line[1] = "heartbeat" }

\* SynergyMonitor::new: log_path is an Option, None is <<>>; result is what
\* the last call of start() returned
SynergyMonitor_new ==
    [last_position |-> 0, log_path |-> <<>>, cursor_is_remote |-> FALSE,
     result |-> "none"]

\* str::to_lowercase on one word
to_lowercase_word(w) ==
    CASE w = "Switching" -> "switching"
      [] w = "Switch" -> "switch"
      [] w = "Leaving" -> "leaving"
      [] w = "Entering" -> "entering"
      [] w = "To" -> "to"
      [] w = "From" -> "from"
      [] w = "Office-PC" -> "office-pc"
      [] OTHER -> w

to_lowercase(line) == [i \in 1..Len(line) |-> to_lowercase_word(line[i])]

\* str::contains for a phrase of whole words
contains(line, phrase) ==
    \E i \in 1..Len(line) :
        /\ i + Len(phrase) - 1 <= Len(line)
        /\ SubSeq(line, i, i + Len(phrase) - 1) = phrase

\* a token at whose start the class [\w\-\.]+ matches
is_name(w) == w \notin {"<-", NL}

\* what ([\w\-\.]+) captures at the start of a token: of "->" it is "-"
captured(w) == IF w = "->" THEN "-" ELSE w

Min(S) == CHOOSE m \in S : \A k \in S : m <= k

\* the capture of "<phrase> ([\w\-\.]+)" at its leftmost match, <<>> if none
capture_after(line, phrase) ==
    LET hits == { i \in 1..Len(line) :
                    /\ i + Len(phrase) <= Len(line)
                    /\ SubSeq(line, i, i + Len(phrase) - 1) = phrase
                    /\ is_name(line[i + Len(phrase)]) }
    IN  IF hits = {} THEN <<>> ELSE <<captured(line[Min(hits) + Len(phrase)])>>

\* the capture of "<first> .*?<prep> ([\w\-\.]+)", <<>> if none
capture_lazy(line, first, prep) ==
    LET hits == { i \in 1..Len(line) :
                    /\ line[i] = first
                    /\ \E j \in (i + 1)..(Len(line) - 1) :
                          line[j] = prep /\ is_name(line[j + 1]) }
    IN  IF hits = {} THEN <<>>
        ELSE LET i == Min(hits)
                 j == Min({ k \in (i + 1)..(Len(line) - 1) :
                              line[k] = prep /\ is_name(line[k + 1]) })
             IN  <<captured(line[j + 1])>>

\* the first non-empty capture of a list of captures
first_match(captures) ==
    LET hits == { i \in 1..Len(captures) : captures[i] # <<>> }
    IN  IF hits = {} THEN <<>> ELSE captures[Min(hits)]

\* mutant: the arrow pattern is tried first
extract_screen_name_arrow_first(line, leaving) ==
    IF leaving
    THEN first_match(<< capture_after(line, <<"->">>),
                        capture_after(line, <<"switching", "to">>),
                        capture_after(line, <<"switch", "to">>),
                        capture_lazy(line, "leaving", "to") >>)
    ELSE first_match(<< capture_after(line, <<"<-">>),
                        capture_after(line, <<"switching", "from">>),
                        capture_after(line, <<"switch", "from">>),
                        capture_lazy(line, "entering", "from") >>)

\* SynergyMonitor::extract_screen_name: Some(name) is <<name>>, None is <<>>
extract_screen_name(line, leaving) ==
    IF leaving
    THEN first_match(<< capture_after(line, <<"switching", "to">>),
                        capture_after(line, <<"switch", "to">>),
                        capture_lazy(line, "leaving", "to"),
                        capture_after(line, <<"->">>) >>)
    ELSE first_match(<< capture_after(line, <<"switching", "from">>),
                        capture_after(line, <<"switch", "from">>),
                        capture_lazy(line, "entering", "from"),
                        capture_after(line, <<"<-">>) >>)

unwrap_or(opt, default) == IF opt = <<>> THEN default ELSE opt[1]

\* mutant: the arrival keywords are tested before the departure keywords
parse_transition_event_arrival_first(line) ==
    LET lower == to_lowercase(line)
    IN  IF \/ contains(lower, <<"entering">>)
           \/ contains(lower, <<"switch", "from">>)
           \/ contains(lower, <<"switching", "from">>)
        THEN << [transition_type |-> "Returned",
                 screen_name |-> unwrap_or(extract_screen_name(line, FALSE), "remote")] >>
        ELSE IF \/ contains(lower, <<"leaving">>)
                \/ contains(lower, <<"switch", "to">>)
                \/ contains(lower, <<"switching", "to">>)
        THEN << [transition_type |-> "Left",
                 screen_name |-> unwrap_or(extract_screen_name(line, TRUE), "remote")] >>
        ELSE <<>>

\* SynergyMonitor::parse_transition_event: Some(t) is <<t>>, None is <<>>
parse_transition_event(line) ==
    LET lower == to_lowercase(line)
    IN  IF \/ contains(lower, <<"leaving">>)
           \/ contains(lower, <<"switch", "to">>)
           \/ contains(lower, <<"switching", "to">>)
        THEN << [transition_type |-> "Left",
                 screen_name |-> unwrap_or(extract_screen_name(line, TRUE), "remote")] >>
        ELSE IF \/ contains(lower, <<"entering">>)
                \/ contains(lower, <<"switch", "from">>)
                \/ contains(lower, <<"switching", "from">>)
        THEN << [transition_type |-> "Returned",
                 screen_name |-> unwrap_or(extract_screen_name(line, FALSE), "remote")] >>
        ELSE <<>>

\* BufRead::lines: split at the newlines; a last line without a newline is
\* yielded as well
lines(bytes) ==
    LET from[k \in 1..(Len(bytes) + 1)] ==
            IF k > Len(bytes) THEN <<>>
            ELSE LET ends == { j \in k..Len(bytes) : bytes[j] = NL }
                 IN  IF ends = {} THEN <<SubSeq(bytes, k, Len(bytes))>>
                     ELSE <<SubSeq(bytes, k, Min(ends) - 1)>> \o from[Min(ends) + 1]
    IN  from[1]

\* the loop of process_new_entries over the lines read (lines 173-177)
parse_lines(ls) ==
    LET upto[k \in 0..Len(ls)] ==
            IF k = 0 THEN <<>> ELSE upto[k - 1] \o parse_transition_event(ls[k])
    IN  upto[Len(ls)]

\* the start offsets of the lines of lines(bytes), for bytes read at base
line_starts(bytes, base) ==
    LET from[k \in 1..(Len(bytes) + 1)] ==
            IF k > Len(bytes) THEN <<>>
            ELSE LET ends == { j \in k..Len(bytes) : bytes[j] = NL }
                 IN  IF ends = {} THEN <<base + k - 1>>
                     ELSE <<base + k - 1>> \o from[Min(ends) + 1]
    IN  from[1]

\* find_synergy_log tries six candidate paths in order (lines 112-125)
Candidates == 1..6

\* the two candidates the model has files at: ~/.synergy/synergy.log, which
\* may exist as an empty file nobody writes, and /var/log/synergy.log, which
\* Synergy writes
home_log == 2
var_log == 4
LogPaths == {home_log, var_log}

\* the content of the file at a candidate path
file_at(path) == IF path = var_log THEN log_file ELSE <<>>

\* mutant: the last existing candidate is taken
find_synergy_log_last == CHOOSE c \in log_exists : \A k \in log_exists : k <= c

\* SynergyMonitor::find_synergy_log when a candidate exists: the first one
find_synergy_log == Min(log_exists)

\* mutant: the channel of a dropped watcher still gets the events
send_to_dropped(ws, path, kind) ==
    [i \in 1..Len(ws) |->
        IF ws[i].path = path
        THEN [ws[i] EXCEPT !.rx = Append(@, kind)]
        ELSE ws[i]]

\* the notify watcher's callback: send the event to the channel of the
\* worker whose watcher is alive and watches the path
send(ws, path, kind) ==
    [i \in 1..Len(ws) |->
        IF ws[i].watching /\ ws[i].path = path
        THEN [ws[i] EXCEPT !.rx = Append(@, kind)]
        ELSE ws[i]]

queue_room(ws) == \A i \in 1..Len(ws) : Len(ws[i].rx) < MaxQueue

\* Synergy appends one line, or a piece of one, to its log; the watcher
\* reports a Modify event
append_log(line) ==
    /\ var_log \in log_exists
    /\ Len(log_file) + Len(line) <= MaxLogLen
    /\ queue_room(workers)
    /\ log_file' = log_file \o line
    /\ workers' = send(workers, var_log, "Modify")
    /\ UNCHANGED <<preferences, call, x11, serviceVars, now, shakeVars, idle_queue, overlayVars,
                   log_exists, monitor, transitions, history>>

\* the log is rotated: the file is truncated to nothing, the watcher reports
\* a Modify event.  No line of the old content is left, so the history
\* starts again.
truncate_log ==
    /\ var_log \in log_exists
    /\ log_file # <<>>
    /\ queue_room(workers)
    /\ log_file' = <<>>
    /\ workers' = [i \in 1..Len(workers) |->
                      [send(workers, var_log, "Modify")[i] EXCEPT !.born = 0]]
    /\ history' = [parsed_to |-> 0, event_line |-> -1]
    /\ UNCHANGED <<preferences, call, x11, serviceVars, now, shakeVars, idle_queue, overlayVars,
                   log_exists, monitor, transitions>>

\* the watcher reports an event that is not a modification (an access)
notify_other ==
    /\ \E p \in LogPaths :
          /\ \E i \in 1..Len(workers) : workers[i].watching /\ workers[i].path = p
          /\ workers' = send(workers, p, "Access")
    /\ queue_room(workers)
    /\ UNCHANGED <<preferences, call, x11, serviceVars, now, shakeVars, idle_queue, overlayVars,
                   log_exists, log_file, monitor, transitions, history>>

\* a log file comes to exist at candidate c
create_log(c) ==
    /\ c \notin log_exists
    /\ log_exists' = log_exists \cup {c}
    /\ UNCHANGED <<preferences, call, x11, serviceVars, now, shakeVars, idle_queue, overlayVars,
                   log_file, monitor, workers, transitions, history>>

\* dropping the watcher closes the sending side of its channel
drop_watcher(ws) == [i \in 1..Len(ws) |-> [ws[i] EXCEPT !.watching = FALSE]]

\* what can happen to the file operations of start(): all succeed, File::open
\* fails (line 74), metadata() fails (line 75), or creating the watcher or
\* watching the path fails (lines 83-89)
StartOutcomes == {"ok", "open", "metadata", "watch"}

\* SynergyMonitor::start.  monitor.result is what the call returned; a
\* worker's born is the length the file had when the worker was spawned.
\* A failing File::open is skipped by the `if let` (the offset stays), a
\* failing metadata() returns before anything is assigned, a failing watcher
\* returns after last_position and log_path were assigned and leaves the old
\* watcher in place.  The model keeps at most MaxWorkers threads.
monitor_start(io) ==
    /\ Len(workers) < MaxWorkers
    /\ IF log_exists = {}
       THEN /\ monitor' = [monitor EXCEPT !.result = "NotFound"]
            /\ UNCHANGED workers
       ELSE IF io = "metadata"
       THEN /\ monitor' = [monitor EXCEPT !.result = "Err"]
            /\ UNCHANGED workers
       ELSE LET log_path == find_synergy_log
                last_position == IF io = "open" THEN monitor.last_position
                                 ELSE Len(file_at(log_path))
            IN  /\ monitor' = [monitor EXCEPT
                                 !.last_position = last_position,
                                 !.log_path = <<log_path>>,
                                 !.result = IF io = "watch" THEN "Err" ELSE "Ok"]
                /\ workers' = IF io = "watch" THEN workers
                              ELSE Append(drop_watcher(workers),
                                          [watching |-> TRUE, rx |-> <<>>,
                                           path |-> log_path,
                                           last_position |-> last_position,
                                           pc |-> "recv", seek |-> 0,
                                           born |-> Len(file_at(log_path))])
    /\ UNCHANGED <<preferences, call, x11, serviceVars, now, shakeVars, idle_queue, overlayVars,
                   log_exists, log_file, transitions, history>>

\* SynergyMonitor::stop
monitor_stop ==
    /\ workers' = drop_watcher(workers)
    /\ UNCHANGED <<preferences, call, x11, serviceVars, now, shakeVars, idle_queue, overlayVars,
                   log_exists, log_file, monitor, transitions, history>>

\* mutant: the offset is taken from the file size whenever the two differ
worker_receive_unguarded(i, io_ok) ==
    /\ i \in 1..Len(workers)
    /\ workers[i].pc = "recv"
    /\ workers[i].rx # <<>>
    /\ LET w == workers[i]
           current_size == Len(file_at(w.path))
           rest == [w EXCEPT !.rx = Tail(@)]
       IN  IF Head(w.rx) # "Modify" \/ ~io_ok \/ current_size = w.last_position
           THEN workers' = [workers EXCEPT ![i] = rest]
           ELSE workers' = [workers EXCEPT ![i] =
                    [rest EXCEPT !.seek = w.last_position,
                                 !.last_position = current_size,
                                 !.pc = "read"]]
    /\ UNCHANGED <<preferences, call, x11, serviceVars, now, shakeVars, idle_queue, overlayVars,
                   log_exists, log_file, monitor, transitions, history>>

\* mutant: a notification that finds the size equal to the offset goes on to read
worker_receive_strict(i, io_ok) ==
    /\ i \in 1..Len(workers)
    /\ workers[i].pc = "recv"
    /\ workers[i].rx # <<>>
    /\ LET w == workers[i]
           current_size == Len(file_at(w.path))
           rest == [w EXCEPT !.rx = Tail(@)]
       IN  IF Head(w.rx) # "Modify" \/ ~io_ok \/ current_size < w.last_position
           THEN workers' = [workers EXCEPT ![i] = rest]
           ELSE workers' = [workers EXCEPT ![i] =
                    [rest EXCEPT !.seek = w.last_position,
                                 !.last_position = current_size,
                                 !.pc = "read"]]
    /\ UNCHANGED <<preferences, call, x11, serviceVars, now, shakeVars, idle_queue, overlayVars,
                   log_exists, log_file, monitor, transitions, history>>

\* event_loop takes the next event from the channel; for a Modify event
\* process_new_entries opens the file, reads its size and seeks (lines
\* 160-168).  io_ok is FALSE when one of the three operations fails: the
\* call returns None before the offset is assigned.
worker_receive(i, io_ok) ==
    /\ i \in 1..Len(workers)
    /\ workers[i].pc = "recv"
    /\ workers[i].rx # <<>>
    /\ LET w == workers[i]
           current_size == Len(file_at(w.path))
           rest == [w EXCEPT !.rx = Tail(@)]
       IN  IF Head(w.rx) # "Modify" \/ ~io_ok \/ current_size <= w.last_position
           THEN workers' = [workers EXCEPT ![i] = rest]
           ELSE workers' = [workers EXCEPT ![i] =
                    [rest EXCEPT !.seek = w.last_position,
                                 !.last_position = current_size,
                                 !.pc = "read"]]
    /\ UNCHANGED <<preferences, call, x11, serviceVars, now, shakeVars, idle_queue, overlayVars,
                   log_exists, log_file, monitor, transitions, history>>

Max(S) == CHOOSE m \in S : \A k \in S : k <= m

\* the bytes worker w reads: from its seek position to the end of the file
read_to_end(w) == SubSeq(file_at(w.path), w.seek + 1, Len(file_at(w.path)))

\* the lines the loop of process_new_entries gets: reader.lines().flatten()
\* drops a line whose read returns an error; lost says that the read of the
\* first line did
lines_read(w, lost) ==
    LET ls == lines(read_to_end(w))
    IN  IF lost /\ ls # <<>> THEN Tail(ls) ELSE ls

\* the start offsets of the lines of a read that give a transition event
event_lines(w, lost) ==
    LET first == IF lost THEN 2 ELSE 1
    IN  UNION { { starts[k] : k \in { j \in first..Len(ls) :
                                         parse_transition_event(ls[j]) # <<>> } } :
                <<ls, starts>> \in { <<lines(read_to_end(w)),
                                       line_starts(read_to_end(w), w.seek)>> } }

\* process_new_entries reads from the seek position to the end of the file
\* and parses the lines (lines 170-183); event_loop only logs what it gets
\* back (lines 140-150), no callback is called and nothing is sent on.  The
\* offset was assigned before (line 168), whether the reads succeed or not.
worker_read(i, lost) ==
    /\ i \in 1..Len(workers)
    /\ workers[i].pc = "read"
    /\ lost => read_to_end(workers[i]) # <<>>
    /\ \E ls \in {lines_read(workers[i], lost)} : transitions' = parse_lines(ls)
    /\ history' = [parsed_to |-> Max({history.parsed_to, Len(file_at(workers[i].path))}),
                   event_line |-> Max({history.event_line} \cup event_lines(workers[i], lost))]
    /\ workers' = [workers EXCEPT ![i].pc = "recv"]
    /\ UNCHANGED <<preferences, call, x11, serviceVars, now, shakeVars, idle_queue, overlayVars,
                   log_exists, log_file, monitor>>

\* the channel is closed and drained: the for loop of event_loop ends and
\* the thread terminates
worker_exit(i) ==
    /\ i \in 1..Len(workers)
    /\ workers[i].pc = "recv"
    /\ workers[i].rx = <<>>
    /\ ~workers[i].watching
    /\ workers' = RemoveAt(workers, i)
    /\ UNCHANGED <<preferences, call, x11, serviceVars, now, shakeVars, idle_queue, overlayVars,
                   log_exists, log_file, monitor, transitions, history>>

(***************************************************************************)
(* Calls of the pure functions                                             *)
(***************************************************************************)
NoCall == [fn |-> "none"]

\* everything but the record of the observed call
appVars == <<preferences, now, shakeVars, idle_queue, overlayVars, serviceVars, x11,
            monitorVars>>

\* the progress the GTK timer tick stores when it runs `elapsed` after show()
tick_progress(elapsed, style) ==
    update_animation([style |-> style, start_time |-> 0, progress |-> 0,
                      is_reversing |-> FALSE], elapsed).progress

\* the animation styles, elapsed times and easing arguments the calls are
\* made with
ClockDurations == {400, 800}
RepeatCounts == {0, 1, 2}
ClockStyles ==
    { [animation_type |-> "Pulse", duration |-> d, easing |-> e,
       repeat_count |-> r, auto_reverse |-> a] :
        d \in ClockDurations, e \in Easings, r \in RepeatCounts, a \in BOOLEAN }
ClockElapsed == { k * 100 : k \in 0..MaxClockSteps }
EasingInputs == { k * 125 : k \in 0..8 }

\* both overlays compute the progress of a frame `elapsed` after show()
animation_progress(elapsed, style) ==
    /\ call' = [fn |-> "progress", style |-> style, elapsed |-> elapsed,
                gtk |-> tick_progress(elapsed, style),
                x11 |-> calculate_animation_progress(elapsed, style)]
    /\ UNCHANGED appVars

\* the animation types, the progress values and the colour alphas (in
\* tenths) a highlight is drawn with
AnimationTypes == {"None", "Pulse", "Fade", "Scale", "Ripple"}
DrawProgress == { k * 125 : k \in 0..8 }
ColorAlphas == {0, 5, 10}

\* mutant: fade goes down to full transparency
draw_highlight_full_fade(animation_type, progress, a) ==
    CASE animation_type = "None" ->
           [alpha |-> 1000 * PScale * a, scale |-> 1000 * PScale]
      [] animation_type = "Pulse" ->
           [alpha |-> (300 * PScale + 700 * (PScale - progress)) * a,
            scale |-> 1000 * PScale]
      [] animation_type = "Fade" ->
           [alpha |-> (1000 * PScale - progress * 1000) * a,
            scale |-> 1000 * PScale]
      [] animation_type = "Scale" ->
           [alpha |-> 1000 * PScale * a,
            scale |-> 800 * PScale + 400 * (PScale - progress)]
      [] animation_type = "Ripple" ->
           [alpha |-> 1000 * (PScale - progress) * a,
            scale |-> 1000 * PScale + progress * 500]

\* HighlightOverlay::draw_highlight, the (alpha, scale) of the animation:
\* the factors are in thousandths and the progress in 1/PScale, so the
\* scale is in 1/(1000 * PScale) and the alpha, for a colour alpha a in
\* tenths, in 1/(10 * 1000 * PScale)
draw_highlight(animation_type, progress, a) ==
    CASE animation_type = "None" ->
           [alpha |-> 1000 * PScale * a, scale |-> 1000 * PScale]
      [] animation_type = "Pulse" ->
           [alpha |-> (300 * PScale + 700 * (PScale - progress)) * a,
            scale |-> 1000 * PScale]
      [] animation_type = "Fade" ->
           [alpha |-> (1000 * PScale - progress * 700) * a,
            scale |-> 1000 * PScale]
      [] animation_type = "Scale" ->
           [alpha |-> 1000 * PScale * a,
            scale |-> 800 * PScale + 400 * (PScale - progress)]
      [] animation_type = "Ripple" ->
           [alpha |-> 1000 * (PScale - progress) * a,
            scale |-> 1000 * PScale + progress * 500]

\* X11Overlay::draw_highlight, the (alpha, scale) of the animation
x11_draw_highlight(animation_type, progress, a) ==
    CASE animation_type = "None" ->
           [alpha |-> 1000 * PScale * a, scale |-> 1000 * PScale]
      [] animation_type = "Pulse" ->
           [alpha |-> (300 * PScale + 700 * (PScale - progress)) * a,
            scale |-> 1000 * PScale]
      [] animation_type = "Fade" ->
           [alpha |-> (1000 * PScale - progress * 700) * a,
            scale |-> 1000 * PScale]
      [] animation_type = "Scale" ->
           [alpha |-> 1000 * PScale * a,
            scale |-> 800 * PScale + 400 * (PScale - progress)]
      [] animation_type = "Ripple" ->
           [alpha |-> 1000 * (PScale - progress) * a,
            scale |-> 1000 * PScale + progress * 500]

\* both overlays derive the alpha and the scale of one frame
highlight_drawn(animation_type, progress, a) ==
    /\ call' = [fn |-> "draw", animation_type |-> animation_type,
                progress |-> progress, a |-> a,
                gtk |-> draw_highlight(animation_type, progress, a),
                x11 |-> x11_draw_highlight(animation_type, progress, a)]
    /\ UNCHANGED appVars

\* Easing::apply is called
easing_apply(easing, t) ==
    /\ call' = [fn |-> "apply", easing |-> easing, t |-> t, value |-> apply(easing, t)]
    /\ UNCHANGED appVars

\* the words of the log lines given to parse_transition_event
Words == {"switching", "switch", "Switching", "to", "from", "leaving", "entering",
          "->", "Office-PC"}

\* the x coordinates and the times between the samples given to detect_shake
DetectX == {0, 24}
DetectSteps == {0, 40}

\* the sensitivities a caller passes, NaN among them
AnySensitivity == SensitivityInputs \cup {NaN}

\* detect_shake is called on the window s with the detector's sensitivity
detect(s) ==
    /\ call' = [fn |-> "detect", samples |-> s, sensitivity |-> sensitivity,
                result |-> detect_shake(s, sensitivity)]
    /\ UNCHANGED appVars

\* parse_transition_event is called with one line (without its newline)
parse_line(line) ==
    /\ call' = [fn |-> "parse", line |-> line, result |-> parse_transition_event(line)]
    /\ UNCHANGED appVars

(***************************************************************************)
(* The clock                                                               *)
(***************************************************************************)
advance_time ==
    /\ \E d \in TimeSteps :
          /\ now + d <= MaxTime
          /\ now' = now + d
    /\ UNCHANGED <<preferences, call, x11, serviceVars, monitorVars, shakeVars, idle_queue, overlayVars>>

(***************************************************************************)
(* Specifications                                                          *)
(***************************************************************************)
Preferences_values(enabled, shake_enabled, shake_sensitivity, highlight_duration, style) ==
    [enabled |-> enabled, cursor_style |-> "Ring",
     animation_style |-> style, highlight_duration |-> highlight_duration,
     shake_enabled |-> shake_enabled, shake_sensitivity |-> shake_sensitivity]

\* the state after setup_app: detector built from the preferences and
\* started, no overlay yet, the Synergy monitor constructed and not started
InitApp ==
    /\ now = 0
    /\ samples = <<>>
    /\ sensitivity = clamp(preferences.shake_sensitivity)
    /\ is_running = TRUE
    /\ last_check = NoCheck
    /\ idle_queue = 0
    /\ overlay = FALSE
    /\ is_visible = FALSE
    /\ window_visible = FALSE
    /\ opacity = 0
    /\ animation = AnimationState_default
    /\ timers = <<>>
    /\ redraw = FALSE
    /\ cursor_position = <<>>
    /\ last_known_position = <<>>
    /\ displays = <<Monitor_0>>
    /\ pointer = <<>>
    /\ x11 = X11Overlay_new
    /\ log_exists = {}
    /\ log_file = <<>>
    /\ monitor = SynergyMonitor_new
    /\ workers = <<>>
    /\ transitions = <<>>
    /\ history = [parsed_to |-> 0, event_line |-> -1]
    /\ call = NoCall

\* the whole application with the default shake sensitivity 0.5, while the
\* user shakes the pointer (each sample's x differs from the one before)
Init ==
    /\ preferences \in { Preferences_values(e, se, 5, d, AnimationStyle_default) :
            e \in BOOLEAN, se \in BOOLEAN, d \in HighlightDurations }
    /\ InitApp

Next ==
    \/ \E x \in XValues, y \in YValues :
          /\ samples # <<>> => x # samples[Len(samples)].x
          /\ record_position(x, y)
    \/ idle_callback
    \/ find_cursor_action
    \/ \E i \in 1..MaxTimers : timer_tick(i)
    \/ advance_time

Spec == Init /\ [][Next]_vars

\* the overlay alone: no pointer motion reaches the detector, the highlight
\* is triggered by the find-cursor action and cancelled by hide_highlight
OverlayInit ==
    /\ preferences \in { Preferences_values(TRUE, TRUE, 5, d, st) :
            d \in HighlightDurations, st \in AnimationStyles }
    /\ InitApp

OverlayNext ==
    \/ find_cursor_action
    \/ hide_highlight
    \/ draw
    \/ \E i \in 1..MaxTimers : timer_tick(i)
    \/ advance_time

OverlaySpec == OverlayInit /\ [][OverlayNext]_vars

\* the positions of the pointer motion events, the answers of a pointer
\* query and the positions given to show_highlight_at
MotionPositions == { <<100, 100>>, <<150, 100>> }
PointerAnswers == { <<>>, << <<200, 200>> >> }
ShowPositions == { <<300, 300>> }

\* the cursor finder service as the application drives it, with pointer
\* motion (each motion event reports a new position), monitors that come
\* and go and a pointer query that may fail
FinderInit ==
    /\ preferences \in { Preferences_values(e, TRUE, 5, 4, AnimationStyle_default) :
            e \in BOOLEAN }
    /\ InitApp

FinderNext ==
    \/ find_cursor_action
    \/ \E pos \in MotionPositions :
          /\ last_known_position # <<pos>>
          /\ update_cursor_position(pos[1], pos[2])
    \/ hide_highlight
    \/ \E ds \in MonitorLists : refresh_displays(ds)
    \/ \E q \in PointerAnswers : move_pointer(q)
    \/ draw
    \/ \E i \in 1..MaxTimers : timer_tick(i)
    \/ advance_time

FinderSpec == FinderInit /\ [][FinderNext]_vars

\* every public operation of the cursor finder service
ServiceNext ==
    \/ FinderNext
    \/ \E pos \in ShowPositions : show_highlight_at_action(pos[1], pos[2])
    \/ center_on_primary

ServiceSpec == FinderInit /\ [][ServiceNext]_vars

\* the X11 overlay on its own: show_highlight with any style and duration,
\* requests to the X server that may fail, and the clock
X11Init ==
    /\ preferences = Preferences_values(TRUE, TRUE, 5, 4, AnimationStyle_default)
    /\ InitApp

X11Next ==
    \/ \E st \in AnimationStyles, d \in HighlightDurations, io \in MapOutcomes :
          x11_show_highlight(st, d, io)
    \/ \E io \in FrameOutcomes, hide_io \in HideOutcomes : x11_frame(io, hide_io)
    \/ \E io \in HideOutcomes : x11_hide_action(io)
    \/ advance_time

X11Spec == X11Init /\ [][X11Next]_vars

\* the shake detector alone: the highlight is disabled, every sensitivity
ShakeInit ==
    /\ preferences \in { Preferences_values(FALSE, TRUE, s, 4, AnimationStyle_default) :
            s \in SensitivityInputs }
    /\ InitApp

ShakeNext ==
    \/ \E x \in XValues, y \in YValues : record_position(x, y)
    \/ \E s \in SensitivityInputs : set_sensitivity(s)
    \/ shake_start
    \/ shake_stop
    \/ idle_callback
    \/ advance_time

ShakeSpec == ShakeInit /\ [][ShakeNext]_vars

\* the Synergy monitor alone: the highlight is enabled, no pointer motion
MonitorInit ==
    /\ preferences = Preferences_values(TRUE, TRUE, 5, 4, AnimationStyle_default)
    /\ InitApp

MonitorNext ==
    \/ \E c \in LogPaths : create_log(c)
    \/ \E line \in LogLines : append_log(line)
    \/ notify_other
    \/ \E io \in StartOutcomes : monitor_start(io)
    \/ monitor_stop
    \/ \E i \in 1..MaxWorkers, io_ok \in BOOLEAN : worker_receive(i, io_ok)
    \/ \E i \in 1..MaxWorkers, lost \in BOOLEAN : worker_read(i, lost)
    \/ \E i \in 1..MaxWorkers : worker_exit(i)

MonitorSpec == MonitorInit /\ [][MonitorNext]_vars

\* the Synergy monitor while the log is rotated: Synergy writes lines that
\* are no transitions and the file is truncated from time to time.  A read
\* that fails loses a line that gives no event, which changes nothing here.
RotateNext ==
    \/ \E c \in LogPaths : create_log(c)
    \/ \E line \in OtherLines : append_log(line)
    \/ truncate_log
    \/ \E io \in StartOutcomes : monitor_start(io)
    \/ monitor_stop
    \/ \E i \in 1..MaxWorkers, io_ok \in BOOLEAN : worker_receive(i, io_ok)
    \/ \E i \in 1..MaxWorkers : worker_read(i, FALSE)
    \/ \E i \in 1..MaxWorkers : worker_exit(i)

RotateSpec == MonitorInit /\ [][RotateNext]_vars

\* the clock has reached the end of the modelled time
session_over == \A d \in TimeSteps : now + d > MaxTime

\* the Synergy monitor while it is started and stopped, a finite number of
\* times (until the end of the modelled time): one log, lines that are no
\* transitions, no failing file operation.  Time passes and every thread
\* that can take a step eventually takes it.
StopNext ==
    \/ create_log(var_log)
    \/ \E line \in OtherLines : append_log(line)
    \/ ~session_over /\ monitor_start("ok")
    \/ ~session_over /\ monitor_stop
    \/ \E i \in 1..MaxWorkers : worker_receive(i, TRUE)
    \/ \E i \in 1..MaxWorkers : worker_read(i, FALSE)
    \/ \E i \in 1..MaxWorkers : worker_exit(i)
    \/ advance_time

StopSpec ==
    /\ MonitorInit
    /\ [][StopNext]_vars
    /\ WF_vars(advance_time)
    /\ \A i \in 1..MaxWorkers :
          /\ WF_vars(worker_receive(i, TRUE))
          /\ WF_vars(worker_read(i, FALSE))
          /\ WF_vars(worker_exit(i))

\* the Synergy monitor while Synergy writes a line in two appends, with no
\* failing file operation
PieceNext ==
    \/ create_log(var_log)
    \/ \E piece \in LogPieces : append_log(piece)
    \/ monitor_start("ok")
    \/ monitor_stop
    \/ \E i \in 1..MaxWorkers : worker_receive(i, TRUE)
    \/ \E i \in 1..MaxWorkers : worker_read(i, FALSE)
    \/ \E i \in 1..MaxWorkers : worker_exit(i)

PieceSpec == MonitorInit /\ [][PieceNext]_vars

\* detect_shake on its own: a detector whose sensitivity is set to any f64
\* and whose window is any sequence of up to MaxDetectLen samples, each
\* call's window being the window before with one more sample, or a new one
DetectInit ==
    /\ preferences = Preferences_values(FALSE, TRUE, 5, 4, AnimationStyle_default)
    /\ InitApp

DetectNext ==
    \/ \E s \in AnySensitivity : set_sensitivity(s)
    \/ \E x \in DetectX, dt \in DetectSteps :
          detect(IF call.fn = "detect" /\ Len(call.samples) < MaxDetectLen
                 THEN Append(call.samples,
                             [x |-> x, y |-> 0,
                              time |-> call.samples[Len(call.samples)].time + dt])
                 ELSE <<[x |-> x, y |-> 0, time |-> 0]>>)

DetectSpec == DetectInit /\ [][DetectNext]_vars

\* the animation clocks and the easing functions on their own: any frame
\* time and style, any easing argument
ClockInit ==
    /\ preferences = Preferences_values(TRUE, TRUE, 5, 4, AnimationStyle_default)
    /\ InitApp

ClockNext ==
    \/ \E elapsed \in ClockElapsed, style \in ClockStyles : animation_progress(elapsed, style)
    \/ \E easing \in Easings, t \in EasingInputs : easing_apply(easing, t)
    \/ \E ty \in AnimationTypes, p \in DrawProgress, a \in ColorAlphas :
          highlight_drawn(ty, p, a)

ClockSpec == ClockInit /\ [][ClockNext]_vars

\* the line parser on its own: every line of up to MaxLineLen words, each
\* call's line being the line before with one more word, or a new line
ParseInit ==
    /\ preferences = Preferences_values(TRUE, TRUE, 5, 4, AnimationStyle_default)
    /\ InitApp

ParseNext ==
    \E w \in Words :
        parse_line(IF call.fn = "parse" /\ Len(call.line) < MaxLineLen
                   THEN Append(call.line, w)
                   ELSE <<w>>)

ParseSpec == ParseInit /\ [][ParseNext]_vars

\* the overlay with the scheduling glib gives it: due timeout sources are
\* dispatched and the clock advances
FairOverlaySpec ==
    /\ OverlaySpec
    /\ WF_vars(advance_time)
    /\ \A i \in 1..MaxTimers : WF_vars(timer_tick(i))

(***************************************************************************)
(* Properties                                                              *)
(***************************************************************************)
\* a timer source that returns Continue when it is dispatched now
live(t) == is_visible /\ ~duration_elapsed(t)

\* a step in which show() ran: it is the only code that adds a timer source
ShowStep == Len(timers') = Len(timers) + 1

\* a step in which a timer loop hid a visible overlay
TimerHideStep == is_visible /\ ~is_visible' /\ Len(timers') < Len(timers)

\* C1: a timer loop hides the overlay only when the duration of the latest
\* session (the one started by the most recent show()) has elapsed; a loop
\* left over from an earlier session never cuts the new session short.
C1_NoLeakFromReplacedSession ==
    [][TimerHideStep =>
         now - animation.start_time >= duration_ms(preferences.highlight_duration)]_vars

\* C2: at most one animation timer loop is live at any time.
C2_AtMostOneLiveLoop ==
    Cardinality({ i \in 1..Len(timers) : live(timers[i]) }) <= 1

\* C3: with timer ticks firing, a visible overlay is eventually hidden
\* (is_visible false and the window not visible), whatever the animation's
\* repeat_count is.
C3_ShowEventuallyHidden ==
    is_visible ~> (~is_visible /\ ~window_visible)

\* C3 witness: a session with a positive repeat_count whose duration has
\* elapsed, hidden, with no loop left
C3_Witness ==
    /\ overlay /\ ~is_visible /\ ~window_visible /\ timers = <<>>
    /\ animation.style.repeat_count > 0
    /\ animation.start_time >= 0
    /\ now - animation.start_time >= duration_ms(preferences.highlight_duration)

\* C4: show() runs from a trigger only when preferences.enabled is true, and
\* from the shake idle callback only when shake_enabled is true as well.
C4_TriggersGatedByEnabled ==
    [][ShowStep =>
         /\ preferences.enabled
         /\ idle_queue' < idle_queue => preferences.shake_enabled]_vars

\* C4 witness: disabled, a shake was detected and its idle callback has run,
\* and no overlay was ever created
C4_Witness ==
    /\ ~preferences.enabled
    /\ last_check.result /\ idle_queue = 0
    /\ ~overlay /\ ~is_visible

\* a record_position call that detected a shake
DetectStep == last_check'.result /\ last_check' # last_check

\* C6: with enabled and shake_enabled (sensitivity 0.5), a detecting
\* record_position call queues the idle callback, and the idle callback, when
\* the main loop runs it, calls show(): the overlay is visible with a fresh
\* session (elapsed 0) and a new timer loop.
C6_ShakeLeadsToShow ==
    [][(preferences.enabled /\ preferences.shake_enabled /\ sensitivity = 5) =>
         /\ DetectStep => idle_queue' = idle_queue + 1
         /\ idle_queue' < idle_queue =>
               /\ is_visible' /\ window_visible'
               /\ animation'.start_time = now' /\ animation'.progress = 0
               /\ ShowStep]_vars

\* C6 witness: the detection's idle callback has run and the session it
\* started is on screen
C6_Witness ==
    /\ preferences.enabled /\ preferences.shake_enabled /\ sensitivity = 5
    /\ last_check.result /\ samples = <<>> /\ idle_queue = 0
    /\ is_visible /\ animation.start_time = now /\ Len(timers) = 1

(***************************************************************************)
(* Shake detector properties                                               *)
(***************************************************************************)
xs(w) == [i \in 1..Len(w) |-> w[i].x]
span(w) == IF w = <<>> THEN 0 ELSE w[Len(w)].time - w[1].time
Monotone(w) == \A i \in 2..Len(w) : w[i - 1].x <= w[i].x

\* a record_position call on a running detector: detect_shake examined a window
CheckStep == last_check' # last_check /\ last_check' # NoCheck

\* C7 as claimed: with sensitivity 1.0, five samples alternating 0, 100, 0,
\* 100, 0 within 200 ms are reported as a shake by the fifth call.
C7_FiveAlternatingDetected ==
    [][(/\ CheckStep /\ sensitivity = 10
        /\ xs(last_check'.window) = <<0, 100, 0, 100, 0>>
        /\ span(last_check'.window) <= 200) => last_check'.result]_vars

\* C7 amended: with sensitivity 1.0, a window that ends with six samples
\* alternating 0, 100, 0, 100, 0, 100 recorded within 200 ms, and whose first
\* and last sample are at different instants, is reported as a shake (and
\* on_shake is invoked) by the call that records the sixth.
C7_SixAlternatingDetected ==
    [][(/\ CheckStep /\ sensitivity = 10
        /\ LET w == last_check'.window
               n == Len(w)
           IN  /\ n >= 6
               /\ xs(SubSeq(w, n - 5, n)) = <<0, 100, 0, 100, 0, 100>>
               /\ w[n].time - w[n - 5].time <= 200
               /\ span(w) > 0)
       => (last_check'.result /\ idle_queue' = idle_queue + 1)]_vars

\* C7 witness: six alternating samples within 200 ms detected at sensitivity 1.0
C7_Witness ==
    /\ sensitivity = 10 /\ last_check.result /\ idle_queue = 1
    /\ xs(last_check.window) = <<0, 100, 0, 100, 0, 100>>
    /\ span(last_check.window) = 200

\* C8: a window whose x values never decrease is never reported as a shake,
\* whatever its length, speed and the sensitivity.
C8_MonotoneNeverDetected ==
    Monotone(last_check.window) => ~last_check.result

\* C8 witness: five or more samples with non-decreasing x that do move, fast
\* enough for the velocity test at the current sensitivity, and no detection
C8_Witness ==
    LET w == last_check.window
    IN  /\ Len(w) >= 5 /\ Monotone(w) /\ w[Len(w)].x > w[1].x
        /\ span(w) > 0
        /\ SumAbsDx(w, 2) * 1000 * 10 > threshold10(sensitivity) * span(w)
        /\ ~last_check.result

\* C9: the window that detect_shake examines, after the eviction step, holds
\* only samples no older than window_duration at the time of the call (the
\* time of its last sample), in non-decreasing time order.
C9_WindowWithinDuration ==
    LET w == last_check.window
    IN  \A i \in 1..Len(w) :
           /\ w[Len(w)].time - w[i].time <= window_duration
           /\ i > 1 => w[i - 1].time <= w[i].time

\* C9 witness: a call that evicted two stale samples and kept one that is
\* exactly window_duration old
C9_Witness ==
    /\ last_check.evicted >= 2
    /\ Len(last_check.window) >= 2
    /\ span(last_check.window) = window_duration

\* C10: a detecting record_position call invokes on_shake exactly once and
\* leaves the sample window empty, and the window it detected on holds at
\* least 4 samples, all recorded after the previous detection.
C10_DetectionClearsWindow ==
    [][DetectStep =>
         /\ idle_queue' = idle_queue + 1
         /\ samples' = <<>>
         /\ Len(last_check'.window) >= 4
         /\ Len(last_check'.window) = Len(samples) + 1 - last_check'.evicted]_vars

\* C10 witness: a detection has just happened, the window is empty and one
\* callback is queued
C10_Witness ==
    /\ last_check.result /\ samples = <<>> /\ idle_queue = 1

(***************************************************************************)
(* Synergy monitor properties                                              *)
(***************************************************************************)
\* a step in which worker i finished process_new_entries
ReadStep(i) ==
    /\ i <= Len(workers) /\ Len(workers') = Len(workers)
    /\ workers[i].pc = "read" /\ workers'[i].pc = "recv"

HasReturned(batch) ==
    \E k \in 1..Len(batch) : batch[k].transition_type = "Returned"

\* C5: when the running monitor parses a new line as a Returned transition
\* and enabled is true, a highlight session is started by that step
\* (Idle -> Active); a batch without a Returned transition starts none.
C5_ReturnedStartsHighlight ==
    [][(preferences.enabled /\ \E i \in 1..MaxWorkers : ReadStep(i)) =>
         IF HasReturned(transitions')
         THEN ShowStep /\ is_visible'
         ELSE ~ShowStep]_vars

\* C11: across any sequence of notifications each appended line is parsed at
\* most once: no read starts before the offset up to which lines have been
\* parsed already, also when the file grows between the size query and the
\* read to the end of the file inside process_new_entries.
C11_LineParsedAtMostOnce ==
    [][\A i \in 1..MaxWorkers :
          ReadStep(i) => workers[i].seek >= history.parsed_to]_vars

\* a step of worker i that is not its start and not its end
WorkerStep(i) == i <= Len(workers) /\ Len(workers') = Len(workers)

\* C12: a worker's read offset (last_position) never decreases, whatever the
\* notifications are: appends, the truncation of the log, notifications
\* whose file operations fail.
C12_OffsetNeverDecreases ==
    [][\A i \in 1..MaxWorkers :
          WorkerStep(i) => workers'[i].last_position >= workers[i].last_position]_vars

\* C12 witness: the log was truncated below the offset of a worker that has
\* advanced, and the worker has taken the notification of the truncation
C12_Witness ==
    \E i \in 1..Len(workers) :
        /\ workers[i].last_position > Len(log_file)
        /\ workers[i].last_position > workers[i].born
        /\ workers[i].rx = <<>>
        /\ workers[i].pc = "recv"

\* C13: start() sets the read offset to the length the log has at start, so
\* a worker never reads from before that length: no line that was completely
\* in the log before start() is parsed afterwards.
C13_NoReplayOfHistory ==
    \A i \in 1..Len(workers) :
        workers[i].pc = "read" => workers[i].seek >= workers[i].born

\* C15: transition events come out in the order of their lines: a batch
\* holds the events of the lines read, in line order, and no event of a
\* later batch is for a line before the last line that gave an event.
C15_EventsInLineOrder ==
    [][\A i \in 1..MaxWorkers :
          ReadStep(i) =>
             \E lost \in BOOLEAN :
                /\ transitions' = parse_lines(lines_read(workers[i], lost))
                /\ \A o \in event_lines(workers[i], lost) : o >= history.event_line]_vars

\* a step in which start() spawned a worker
SpawnStep == Len(workers') = Len(workers) + 1

Left(name) == <<[transition_type |-> "Left", screen_name |-> name]>>
Returned(name) == <<[transition_type |-> "Returned", screen_name |-> name]>>

\* C14: a line containing "switching to Office-PC" gives exactly one event,
\* Left with peer Office-PC; a line containing "switching from Office-PC"
\* gives exactly one event, Returned with peer Office-PC.
C14_SwitchingLineGivesEvent ==
    call.fn = "parse" =>
        /\ contains(call.line, <<"switching", "to", "Office-PC">>)
              => call.result = Left("Office-PC")
        /\ contains(call.line, <<"switching", "from", "Office-PC">>)
              => call.result = Returned("Office-PC")

\* the word that follows the first occurrence of a phrase in a line
word_after_first(line, phrase) ==
    LET occ == { i \in 1..(Len(line) - Len(phrase)) :
                    SubSeq(line, i, i + Len(phrase) - 1) = phrase }
    IN  IF occ = {} THEN <<>> ELSE <<line[Min(occ) + Len(phrase)]>>

\* the line has one of the departure keywords, in any case
HasDepartureKeyword(line) ==
    \/ contains(to_lowercase(line), <<"leaving">>)
    \/ contains(to_lowercase(line), <<"switch", "to">>)
    \/ contains(to_lowercase(line), <<"switching", "to">>)

\* C14 as amended: a line whose first "switching to" is followed by
\* Office-PC gives exactly one event, Left with peer Office-PC; a line whose
\* first "switching from" is followed by Office-PC and that has no departure
\* keyword gives exactly one event, Returned with peer Office-PC.
C14_FirstSwitchingGivesEvent ==
    call.fn = "parse" =>
        /\ word_after_first(call.line, <<"switching", "to">>) = <<"Office-PC">>
              => call.result = Left("Office-PC")
        /\ (/\ word_after_first(call.line, <<"switching", "from">>) = <<"Office-PC">>
            /\ ~HasDepartureKeyword(call.line))
              => call.result = Returned("Office-PC")

\* C14 witness: a line with an arrival keyword before "switching from
\* Office-PC" was parsed as Returned from Office-PC
C14_Witness ==
    /\ call.fn = "parse"
    /\ call.line = <<"entering", "switching", "from", "Office-PC">>
    /\ call.result = Returned("Office-PC")

(***************************************************************************)
(* Animation clock properties                                              *)
(***************************************************************************)
\* C16: for every elapsed >= 0 and duration > 0 the progress a timer tick
\* computes is in [0, 1].
C16_ProgressInUnitInterval ==
    (call.fn = "progress" /\ call.elapsed >= 0 /\ call.style.duration > 0)
        => call.gtk \in 0..PScale

\* C16 witness: a tick in a reversing cycle, progress strictly inside (0, 1)
C16_Witness ==
    /\ call.fn = "progress"
    /\ call.style.auto_reverse
    /\ call.style.repeat_count = 0
    /\ call.elapsed > call.style.duration
    /\ (call.elapsed \div call.style.duration) % 2 = 1
    /\ call.gtk > 0 /\ call.gtk < PScale

\* C17: every easing has apply(0) = 0 and apply(1) = 1.
C17_EasingBoundaries ==
    call.fn = "apply" =>
        /\ call.t = 0 => call.value = 0
        /\ call.t = PScale => call.value = PScale

\* C17 witness: EaseInOut was applied to 1 and gave 1
C17_Witness ==
    /\ call.fn = "apply"
    /\ call.easing = "EaseInOut"
    /\ call.t = PScale
    /\ call.value = PScale

\* the frame lies in the second cycle of an auto-reversing animation: elapsed
\* is duration + x for an x in (0, duration)
InMirroredCycle ==
    /\ call.fn = "progress"
    /\ call.style.auto_reverse
    /\ call.style.duration < call.elapsed
    /\ call.elapsed < 2 * call.style.duration

\* the elapsed time duration - x of a frame at duration + x
mirrored == 2 * call.style.duration - call.elapsed

\* C18: with auto_reverse the progress at elapsed = duration + x equals the
\* progress at elapsed = duration - x for every x in (0, duration), every
\* easing and every repeat_count.
C18_AutoReverseMirrors ==
    InMirroredCycle =>
        /\ call.gtk = tick_progress(mirrored, call.style)
        /\ call.x11 = calculate_animation_progress(mirrored, call.style)

\* C18 as amended: the X11 overlay mirrors for every repeat_count, the GTK
\* overlay for every repeat_count but 1 (0 or at least 2).
C18_MirrorsUnlessOneRepeat ==
    InMirroredCycle =>
        /\ call.style.repeat_count # 1 => call.gtk = tick_progress(mirrored, call.style)
        /\ call.x11 = calculate_animation_progress(mirrored, call.style)

\* C18 witness: a frame three quarters through the second cycle of a
\* two-repeat animation, with a progress strictly inside (0, 1)
C18_Witness ==
    /\ InMirroredCycle
    /\ call.style.repeat_count = 2
    /\ 4 * (call.elapsed - call.style.duration) = 3 * call.style.duration
    /\ call.gtk = call.x11
    /\ call.gtk > 0 /\ call.gtk < PScale

(***************************************************************************)
(* Overlay properties, continued                                           *)
(***************************************************************************)
\* C19: after hide() the overlay stays not visible until the next show(): in
\* every step from a hidden state that is not a show() the overlay and its
\* window stay hidden, the animation state is not advanced, no redraw is
\* queued, and a timer loop that ticks stops.
C19_HiddenUntilNextShow ==
    [][(~is_visible /\ ~ShowStep) =>
          /\ ~is_visible'
          /\ ~window_visible'
          /\ opacity' = 0
          /\ animation' = animation
          /\ redraw' => redraw
          /\ timers' # timers => Len(timers') < Len(timers)]_vars

\* C19 witness: show(), hide() and the tick of the pending loop all happened
\* at time 0: the loop is gone, the overlay is hidden, the animation is as
\* show() left it and no redraw is queued
C19_Witness ==
    /\ now = 0
    /\ overlay
    /\ ~is_visible /\ ~window_visible
    /\ timers = <<>>
    /\ animation.start_time = 0 /\ animation.progress = 0
    /\ ~redraw

(***************************************************************************)
(* Synergy monitor properties, continued                                   *)
(***************************************************************************)
\* a step in which worker i finished process_new_entries after the read of
\* a line failed: the batch lacks an event of the bytes it read
FailedRead(i) ==
    /\ ReadStep(i)
    /\ transitions' # parse_lines(lines(read_to_end(workers[i])))

\* C21: when a file operation fails while a notification is processed, the
\* read offset keeps the value it had before the notification (the seek
\* position of the read), so that the unread lines are read again later.
C21_FailedNotificationKeepsOffset ==
    [][\A i \in 1..MaxWorkers :
          FailedRead(i) => workers'[i].last_position = workers[i].seek]_vars

\* a step in which worker i took a Modify notification from its channel
\* and found the file no longer than its offset
ShortFileStep(i) ==
    /\ WorkerStep(i)
    /\ workers[i].pc = "recv"
    /\ workers[i].rx # <<>>
    /\ Head(workers[i].rx) = "Modify"
    /\ workers'[i].rx = Tail(workers[i].rx)
    /\ Len(file_at(workers[i].path)) <= workers[i].last_position

\* C26: a notification that finds the file's size <= the recorded offset
\* returns no events, raises no error and leaves the offset unchanged: the
\* worker goes on to wait for the next event, nothing is read.
C26_ShortFileIsNoOp ==
    [][\A i \in 1..MaxWorkers :
          ShortFileStep(i) =>
             /\ workers'[i] = [workers[i] EXCEPT !.rx = Tail(@)]
             /\ transitions' = transitions]_vars

\* C26 witness: after a truncation a worker has taken the notification and
\* waits again, its offset beyond the end of the file
C26_Witness ==
    \E i \in 1..Len(workers) :
        /\ workers[i].watching
        /\ workers[i].pc = "recv"
        /\ workers[i].rx = <<>>
        /\ log_file = <<>>
        /\ workers[i].last_position > 0

\* C27: only complete lines are classified: the bytes a notification reads
\* start at the start of a line and end with a newline, so a line whose end
\* is not written yet is not parsed as a fragment.
C27_OnlyCompleteLinesParsed ==
    [][\A i \in 1..MaxWorkers :
          ReadStep(i) =>
             LET w == workers[i]
                 bytes == read_to_end(w)
             IN  bytes # <<>> =>
                    /\ bytes[Len(bytes)] = NL
                    /\ w.seek = 0 \/ file_at(w.path)[w.seek] = NL]_vars

(***************************************************************************)
(* Shake detector properties, continued                                    *)
(***************************************************************************)
\* the number of places where the pointer turns round: a move to one side
\* directly followed by a move to the other side
turns(s) ==
    Cardinality({ k \in 2..(Len(s) - 1) :
        (s[k].x - s[k - 1].x) * (s[k + 1].x - s[k].x) < 0 })

\* the distance travelled along x over the window
travelled(s) ==
    LET upto[k \in 1..Len(s)] ==
            IF k = 1 THEN 0 ELSE upto[k - 1] + Abs(s[k].x - s[k - 1].x)
    IN  upto[Len(s)]

\* C23: detect_shake reports a shake iff the window holds at least 4
\* samples, its time span is positive, it has at least 4 direction changes
\* and its velocity (distance / span) is strictly greater than the
\* threshold 900 - sensitivity * 600; a velocity equal to the threshold does
\* not detect.  (px, ms and tenths: distance * 10000 > (9000 - 600 s) * span)
C23_DetectIffFastShake ==
    (call.fn = "detect" /\ call.sensitivity # NaN) =>
        LET s == call.samples
            time_span == s[Len(s)].time - s[1].time
        IN  call.result <=>
               /\ Len(s) >= 4
               /\ time_span > 0
               /\ turns(s) >= 4
               /\ travelled(s) * 10000 > (9000 - 600 * call.sensitivity) * time_span

\* C23 witness: a window of 4 turns whose velocity equals the threshold
\* (120 px in 200 ms at sensitivity 0.5) has been given and has not detected
C23_Witness ==
    /\ call.fn = "detect"
    /\ call.sensitivity = 5
    /\ Len(call.samples) = 6
    /\ turns(call.samples) = 4
    /\ travelled(call.samples) = 120
    /\ call.samples[6].time = 200
    /\ ~call.result

\* the window s with a sample inserted after its k-th sample, at the same x
insert_same_x(s, k) == SubSeq(s, 1, k) \o <<s[k]>> \o SubSeq(s, k + 1, Len(s))

\* C24: zero horizontal deltas neither count as a direction change nor
\* break a run: a sample inserted with the same x as its predecessor does
\* not change the number of direction changes counted for the window.
C24_ZeroDeltaKeepsCount ==
    call.fn = "detect" =>
        \A k \in 1..Len(call.samples) :
            direction_changes(insert_same_x(call.samples, k))
                = direction_changes(call.samples)

\* C25: after any sequence of new(s) and set_sensitivity(s) the stored
\* sensitivity is in [0, 1] and the threshold 900 - sensitivity * 600 is in
\* [300, 900], 300 at sensitivity 1 and 900 at sensitivity 0, and a larger
\* sensitivity never has a larger threshold.
C25_SensitivityInUnitInterval ==
    /\ sensitivity \in 0..10
    /\ threshold10(sensitivity) \in (10 * min_threshold)..(10 * max_threshold)
    /\ sensitivity = 10 => threshold10(sensitivity) = 10 * 300
    /\ sensitivity = 0 => threshold10(sensitivity) = 10 * 900
    /\ \A t \in 0..10 : t >= sensitivity => threshold10(t) <= threshold10(sensitivity)

(***************************************************************************)
(* Line parser properties, continued                                       *)
(***************************************************************************)
\* what each pattern of a direction's list captures in the line, in the
\* order of the list: <<name>>, or <<>> where the pattern does not match
departure_captures(line) ==
    << capture_after(line, <<"switching", "to">>),
       capture_after(line, <<"switch", "to">>),
       capture_lazy(line, "leaving", "to"),
       capture_after(line, <<"->">>) >>

arrival_captures(line) ==
    << capture_after(line, <<"switching", "from">>),
       capture_after(line, <<"switch", "from">>),
       capture_lazy(line, "entering", "from"),
       capture_after(line, <<"<-">>) >>

\* C28: for every line classified as Left or Returned the peer name is the
\* capture of the first pattern of that direction's list that matches the
\* line, "remote" when none matches, and never empty.
C28_NameOfFirstMatchingPattern ==
    (call.fn = "parse" /\ call.result # <<>>) =>
        LET event == call.result[1]
            caps == IF event.transition_type = "Left"
                    THEN departure_captures(call.line)
                    ELSE arrival_captures(call.line)
            matching == { k \in 1..4 : caps[k] # <<>> }
        IN  /\ event.screen_name # ""
            /\ matching = {} => event.screen_name = "remote"
            /\ \A k \in matching :
                  (\A j \in matching : k <= j) => event.screen_name = caps[k][1]

\* C28 witness: a departure line was parsed that the first pattern does not
\* match and that the third and the fourth match with different captures
C28_Witness ==
    /\ call.fn = "parse"
    /\ call.result # <<>>
    /\ call.result[1].transition_type = "Left"
    /\ departure_captures(call.line)[1] = <<>>
    /\ departure_captures(call.line)[3] = <<"Office-PC">>
    /\ departure_captures(call.line)[4] = <<"to">>

(***************************************************************************)
(* Animation properties, continued                                         *)
(***************************************************************************)
\* C29: for a style with repeat_count > 0 and duration > 0, at every tick
\* whose cycle index floor(elapsed / duration) is >= repeat_count the
\* progress is exactly 1.0, in the GTK overlay and in the X11 overlay.
C29_ProgressOneAfterRepeats ==
    (/\ call.fn = "progress"
     /\ call.style.repeat_count > 0
     /\ call.style.duration > 0
     /\ call.elapsed \div call.style.duration >= call.style.repeat_count)
        => call.gtk = PScale /\ call.x11 = PScale

\* a step in which the draw function painted the highlight
DrawStep == redraw /\ ~redraw' /\ is_visible

\* C30: for a style with duration <= 0 the progress seen by every draw of
\* the session is 1.0.
C30_NoDurationDrawsComplete ==
    [][(DrawStep /\ animation.style.duration <= 0)
          => animation.progress = PScale]_vars

(***************************************************************************)
(* Drawing properties                                                      *)
(***************************************************************************)
\* the alpha and the scale the specification gives for a frame, in
\* millionths: alpha as a factor of the colour alpha
specified_alpha(ty, p) ==
    CASE ty = "None" -> 1000000
      [] ty = "Pulse" -> 300000 + 700 * (1000 - p)
      [] ty = "Fade" -> 1000000 - 700 * p
      [] ty = "Scale" -> 1000000
      [] ty = "Ripple" -> 1000 * (1000 - p)

specified_scale(ty, p) ==
    CASE ty = "Scale" -> 800000 + 400 * (1000 - p)
      [] ty = "Ripple" -> 1000000 + 500 * p
      [] OTHER -> 1000000

\* C31: for every animation type and every progress in [0,1] the derived
\* alpha equals the specified formula and lies in [0, color.alpha], never
\* below 0.3 * color.alpha for pulse and fade, and the derived scale lies in
\* [0.8, 1.5] and is exactly 1.0 for none, pulse and fade; in both overlays.
C31_AlphaAndScaleInRange ==
    (call.fn = "draw" /\ call.progress \in 0..PScale) =>
        \A v \in {call.gtk, call.x11} :
            /\ v.alpha = specified_alpha(call.animation_type, call.progress) * call.a
            /\ v.scale = specified_scale(call.animation_type, call.progress)
            /\ v.alpha >= 0
            /\ v.alpha <= 1000000 * call.a
            /\ call.animation_type \in {"Pulse", "Fade"} => v.alpha >= 300000 * call.a
            /\ v.scale >= 800000
            /\ v.scale <= 1500000
            /\ call.animation_type \in {"None", "Pulse", "Fade"} => v.scale = 1000000

\* C31 witness: a fade frame at progress 1.0 with an opaque colour was
\* drawn at 0.3 of the colour's alpha
C31_Witness ==
    /\ call.fn = "draw"
    /\ call.animation_type = "Fade"
    /\ call.progress = PScale
    /\ call.a = 10
    /\ call.gtk.alpha = 3000000
    /\ call.x11.alpha = 3000000

(***************************************************************************)
(* Cursor finder service properties                                        *)
(***************************************************************************)
\* a step in which a timer loop went on (ControlFlow::Continue): the clock,
\* the timers, the service and the X server are as before, the overlay is
\* visible and a redraw is queued
ContinueStep ==
    /\ is_visible /\ is_visible'
    /\ timers # <<>> /\ timers' = timers
    /\ now' = now
    /\ serviceVars' = serviceVars
    /\ redraw'

\* C32: find_cursor shows the highlight at the most recent position given
\* to update_cursor_position if there was one, otherwise at the centre of
\* the primary display, otherwise at (960, 540), whether or not the pointer
\* can be queried; and a tick whose pointer query fails keeps the position
\* and still advances the animation.
C32_NoLivePointerNeeded ==
    [][/\ ShowStep =>
            cursor_position' =
               IF last_known_position # <<>> THEN last_known_position[1]
               ELSE IF displays # <<>>
               THEN <<displays[1].x + displays[1].width \div 2,
                      displays[1].y + displays[1].height \div 2>>
               ELSE <<960, 540>>
       /\ (ContinueStep /\ pointer = <<>>) =>
            /\ cursor_position' = cursor_position
            /\ animation' = update_animation(animation, now)]_vars

\* C32 witness: with no known position, no display and no answer to the
\* pointer queries the highlight was shown at (960, 540), and a tick has
\* advanced the animation and kept the position
C32_Witness ==
    /\ pointer = <<>>
    /\ is_visible
    /\ displays = <<>>
    /\ last_known_position = <<>>
    /\ cursor_position = <<960, 540>>
    /\ animation.progress > 0

\* C35: while preferences.enabled is false no public operation of the
\* cursor finder service makes the highlight overlay visible.
C35_DisabledNeverVisible ==
    ~preferences.enabled => ~is_visible /\ ~window_visible

\* C33: the two overlays implement the same animation clock: for every
\* elapsed >= 0 and every style, X11Overlay::calculate_animation_progress
\* returns the progress the HighlightOverlay tick computes.
C33_SameClockInBothOverlays ==
    (call.fn = "progress" /\ call.elapsed >= 0) => call.x11 = call.gtk

(***************************************************************************)
(* X11 overlay properties                                                  *)
(***************************************************************************)
\* C34: whenever X11Overlay::show_highlight has returned, with Ok or with an
\* error, the overlay window is unmapped and is_visible is false.
C34_ReturnedMeansUnmapped ==
    x11.returned \in {"Ok", "Err"} => ~x11.mapped /\ ~x11.is_visible

(***************************************************************************)
(* Shake detector properties: start and stop                               *)
(***************************************************************************)
\* C36: while the detector is not running record_position leaves the window
\* unchanged and never invokes on_shake; stop() empties the window and a
\* start() of a stopped detector begins with an empty window, so a detection
\* after a stop/start cycle uses only samples recorded after the restart;
\* start() on a running detector keeps the accumulated samples (the window
\* changes only in a record_position call, which leaves a new last_check).
C36_StoppedDetectorIsInert ==
    [][/\ (~is_running /\ ~is_running') =>
             /\ samples' = samples
             /\ idle_queue' <= idle_queue
       /\ ~is_running' => samples' = <<>>
       /\ (~is_running /\ is_running') => samples' = <<>>
       /\ (is_running /\ is_running' /\ last_check' = last_check) =>
             samples' = samples]_vars

\* C36 witness: a detector that has accumulated samples and examined them
\* was stopped: its window is empty and a later record_position has not
\* filled it
C36_Witness ==
    /\ ~is_running
    /\ samples = <<>>
    /\ last_check = NoCheck
    /\ now >= 400

(***************************************************************************)
(* Line parser properties: keywords and letter case                        *)
(***************************************************************************)
\* the line has one of the arrival keywords, in any case
HasArrivalKeyword(line) ==
    \/ contains(to_lowercase(line), <<"entering">>)
    \/ contains(to_lowercase(line), <<"switch", "from">>)
    \/ contains(to_lowercase(line), <<"switching", "from">>)

\* C37: every log line yields at most one transition event, and a line with
\* both a departure keyword and an arrival keyword is classified as Left.
C37_DepartureBeforeArrival ==
    call.fn = "parse" =>
        /\ Len(call.result) <= 1
        /\ (HasDepartureKeyword(call.line) /\ HasArrivalKeyword(call.line)) =>
              /\ Len(call.result) = 1
              /\ call.result[1].transition_type = "Left"

\* C37 witness: a line whose arrival keyword comes before its departure
\* keyword was classified as Left
C37_Witness ==
    /\ call.fn = "parse"
    /\ call.line = <<"entering", "switching", "to", "Office-PC">>
    /\ call.result = Left("Office-PC")

\* the line with its capitalised keywords in lower case
lower_keywords(line) ==
    [i \in 1..Len(line) |-> IF line[i] = "Switching" THEN "switching" ELSE line[i]]

\* the capitalised keyword is not where a pattern captures a name
KeywordIsNoName(line) ==
    \A i \in 2..Len(line) :
        line[i] = "Switching" => line[i - 1] \notin {"to", "from", "->", "<-"}

\* C38: classification and name extraction agree on letter case: two lines
\* that differ only in the letter case of the keyword ("Switching to
\* Office-PC", "switching to Office-PC") give events of the same kind with
\* the same peer name.
C38_KeywordCaseIsIrrelevant ==
    (call.fn = "parse" /\ KeywordIsNoName(call.line)) =>
        call.result = parse_transition_event(lower_keywords(call.line))

(***************************************************************************)
(* Synergy monitor properties: the remote flag and the worker threads      *)
(***************************************************************************)
\* C39: is_cursor_remote() reflects the most recent transition the running
\* monitor processed: true after a Left event, false after a Returned event
\* (and false before any event).
C39_RemoteFlagFollowsTransitions ==
    /\ transitions # <<>> =>
          monitor.cursor_is_remote
             = (transitions[Len(transitions)].transition_type = "Left")
    /\ history.event_line < 0 => ~monitor.cursor_is_remote

\* the threads whose watcher was dropped
dropped == { i \in 1..Len(workers) : ~workers[i].watching }

====
